---- MODULE Spec2Model ----
(***************************************************************************)
(* Session manager of better-call-robots: the WebSocket handler            *)
(* (websocket_endpoint) and the GeminiLLM session map, in its two          *)
(* variants:                                                               *)
(*   "A"  src/main.py + src/llm.py: a stateful chat-session object per     *)
(*        call, asked with `await chat_session.send_message_async`;        *)
(*   "B"  src/services/api/main.py + src/services/api/llm.py: a list of    *)
(*        turns per call, re-sent as a context string through the          *)
(*        synchronous genai.generate_text.                                 *)
(* One server process runs one variant; `variant` is fixed by Init.        *)
(*                                                                         *)
(* Content pipeline of src/services/api/content_processor.py:              *)
(* ContentProcessor (process_url, _chunk_content) and SimpleRAGRetriever   *)
(* (add_document, search).  Texts are sequences of characters and the      *)
(* encoding gives one token per character; SpecChunk, SpecProcess,         *)
(* SpecIndex and SpecSearch drive the pipeline's operations while the      *)
(* session manager stands still, and the other way round.                  *)
(***************************************************************************)
EXTENDS Integers, Sequences, FiniteSets, TLC

\* ------------------------------------------------------------------ bounds
\* Accepted prompts per behaviour of Spec (histories and outbound logs grow
\* with every accepted prompt and with nothing else).
MaxPrompts == 2
\* Accepted prompts per behaviour of SpecLong (one connection, variant B):
\* enough for a history longer than the context window.
LongPrompts == 6
\* Longest text handed to the chunker, in tokens: three times
\* max_chunk_tokens, the length the specification's example names.
MaxTokens == 1500
\* Seconds of wall-clock time that pass while documents are processed.
MaxClock == 1
\* Documents are added while the index holds fewer chunks than this.
MaxChunks == 3
\* The same for the corpus that is searched.
MaxCorpus == 4
\* Largest top_k asked of search.
MaxTopK == 2

\* --------------------------------------------------------- program constants
\* self.sessions[call_sid][-10:]
ContextWindow == 10

\* ------------------------------------------------------------ input domains
Conns == {"k1", "k2"}
Calls == {"c1", "c2"}
Msgs == {"m1"}
\* The prompts of SpecLong, where the order of the turns is what is checked.
LongMsgs == {"m1", "m2"}
Replies == {"r1"}

None == "None"
SYSTEM_PROMPT == "SYSTEM_PROMPT"
FALLBACK == "I'm having trouble right now. Can you please repeat that?"
DIDNT_UNDERSTAND == "I apologize, I didn't understand that."

\* Exception classes a backend call can raise.  ValueError is what
\* response.text raises on a blocked/empty candidate and what get_response
\* raises itself; ApiError stands for every other Exception subclass
\* (network, quota, malformed response).
BackendErrors == {"ValueError", "ApiError"}

\* isinstance(exc, cls) for the handler classes the code names.
IsInstance(exc, cls) ==
    \/ cls = "Exception"
    \/ cls = exc

\* What a backend call can do once it returns: a result text (possibly
\* empty) or an exception.
BackendOutcomes ==
    {[kind |-> "ok", result |-> r, exc |-> None] : r \in Replies \cup {""}}
        \cup {[kind |-> "raise", result |-> "", exc |-> e] : e \in BackendErrors}

\* send_message_async followed by response.text: a non-empty text or an
\* exception.
ChatOutcomes == {o \in BackendOutcomes : o.kind = "raise" \/ o.result # ""}

\* What websocket.send_text does on a transport the peer has closed; the
\* outcome depends on the ASGI server and Starlette versions (not pinned).
SendOutcomes == {"sent", "WebSocketDisconnect", "RuntimeError"}

\* Inbound frames that are not one of the four well-formed event shapes.
MalformedKinds == {"badjson", "notype", "setup_nosid", "prompt_noprompt"}

VARIABLES
    variant,      \* "A" or "B": which server this behaviour is of
    sessions,     \* llm.sessions: call id -> history of the call's session
    pc,           \* per connection: where its handler coroutine is
    callSid,      \* per connection: the local call_sid
    user_prompt,  \* per connection: the local user_prompt
    req,          \* per connection: the chat_session get_response awaits on (A)
    resp,         \* per connection: the local response_text
    closed,       \* per connection: the peer has closed the transport
    out,          \* per connection: payloads handed to websocket.send_text, each
                  \*   tagged with the ordinal of the prompt it answers
    asked,        \* per connection: the prompts for which a completion was requested
    last,         \* the step just taken: its connection and what it did
    budget,       \* prompts that may still be accepted
    clock,        \* int(datetime.now().timestamp()): the wall clock in seconds
    documents,    \* rag_retriever.documents: document id -> ProcessedDocument
    chunks,       \* rag_retriever.chunks: the flat list of ProcessedChunk
    ret           \* the content pipeline's last call: its arguments and what
                  \*   it returned or raised

\* The session manager's variables and the content pipeline's.
svars == <<variant, sessions, pc, callSid, user_prompt, req, resp,
           closed, out, asked, last, budget>>
cvars == <<clock, documents, chunks, ret>>
vars == <<variant, sessions, pc, callSid, user_prompt, req, resp,
          closed, out, asked, last, budget, clock, documents, chunks, ret>>

\* ------------------------------------------------------------ list helpers
\* Mutant of LastN: xs[:n], the first n instead of the last n.
LastN_first(xs, n) ==
    IF Len(xs) <= n THEN xs ELSE SubSeq(xs, 1, n)

\* Python's xs[-n:] for n > 0.
LastN(xs, n) ==
    IF Len(xs) <= n THEN xs ELSE SubSeq(xs, Len(xs) - n + 1, Len(xs))

\* The empty dict.
EmptySessions == [d \in {} |-> <<>>]

\* dict without a key / with a key set.
DictDel(s, c) == [d \in DOMAIN s \ {c} |-> s[d]]
DictSet(s, c, v) == [d \in DOMAIN s \cup {c} |-> IF d = c THEN v ELSE s[d]]

\* ------------------------------------------------- variant A: src/llm.py
\* A session value is a ChatSession object; the model keeps its history.
\* self.model.start_chat(history=[]) makes a new object every time.
start_chat == <<>>

\* Mutant of A_create_session: setdefault, an existing session is kept.
A_create_session_keep(s, c) ==
    IF c \in DOMAIN s THEN s ELSE DictSet(s, c, start_chat)

A_create_session(s, c) == DictSet(s, c, start_chat)

A_get_session(s, c) == IF c \in DOMAIN s THEN s[c] ELSE None

\* Mutant of A_remove_session: self.sessions.clear().
A_remove_session_all(s, c) == IF c \in DOMAIN s THEN EmptySessions ELSE s

A_remove_session(s, c) == IF c \in DOMAIN s THEN DictDel(s, c) ELSE s

A_has_session(s, c) == c \in DOMAIN s

\* The chat_session a suspended get_response holds is an object reference:
\* "mapped" while that object is still the value of sessions[call_sid],
\* "detached" once the entry was replaced or removed, "none" when the
\* connection awaits nothing.  Replacing or removing the entry of call c
\* detaches every reference to the object stored there.
Detach(r, c) ==
    [k \in Conns |-> IF r[k] = "mapped" /\ callSid[k] = c THEN "detached" ELSE r[k]]

\* chat_session.send_message_async succeeded: the object records the user
\* turn and the model turn; the map shows it only if the object is mapped.
A_record_turns(s, ref, c, m, text) ==
    IF ref = "mapped"
    THEN [s EXCEPT ![c] = @ \o <<(<<"user", m>>), (<<"model", text>>)>>]
    ELSE s

\* ------------------------------------- variant B: src/services/api/llm.py
B_create_session(s, c) == DictSet(s, c, <<>>)

B_has_session(s, c) == c \in DOMAIN s

\* Mutant of B_end_session: the membership test inverted.
B_end_session_absent(s, c) == IF c \notin DOMAIN s THEN DictDel(s, c) ELSE s

B_end_session(s, c) == IF c \in DOMAIN s THEN DictDel(s, c) ELSE s

UserTurn(m) == <<"User", m>>
AiTurn(r) == <<"AI", r>>

\* The prompt string, as its parts in order: the system instruction, the
\* "Conversation:" marker, the context lines, the closing "AI:" cue.
BuildPrompt(context) == <<SYSTEM_PROMPT, "Conversation:">> \o context \o <<"AI:">>

\* The history after send_message's first statements: implicit creation,
\* then the user turn appended.
B_with_user(s, c, m) ==
    LET s1 == IF ~B_has_session(s, c) THEN B_create_session(s, c) ELSE s
    IN [s1 EXCEPT ![c] = Append(@, UserTurn(m))]

\* Mutant of B_except: the narrower clause of the handlers.
B_except_narrow == "ValueError"

\* The except clause of send_message.
B_except == "Exception"

\* Mutant of B_send_message: the fallback reply is recorded as a turn.
B_send_message_logs_fallback(s, c, m, o) ==
    LET s2 == B_with_user(s, c, m)
        prompt == BuildPrompt(LastN(s2[c], ContextWindow))
        ai == IF o.kind = "ok" /\ o.result # "" THEN o.result
              ELSE IF o.kind = "ok" THEN DIDNT_UNDERSTAND ELSE FALLBACK
    IN  [sessions |-> [s2 EXCEPT ![c] = Append(@, AiTurn(ai))],
         ret |-> ai, prompt |-> prompt, raised |-> None]

\* send_message(call_sid, message) with the backend behaving as `o`:
\* the session map afterwards, the value returned, the prompt handed to
\* genai.generate_text, and the exception that leaves the method (None
\* when it returns).
B_send_message(s, c, m, o) ==
    LET s2 == B_with_user(s, c, m)
        prompt == BuildPrompt(LastN(s2[c], ContextWindow))
        ai == IF o.result # "" THEN o.result ELSE DIDNT_UNDERSTAND
    IN  IF o.kind = "ok"
        THEN [sessions |-> [s2 EXCEPT ![c] = Append(@, AiTurn(ai))],
              ret |-> ai, prompt |-> prompt, raised |-> None]
        ELSE IF IsInstance(o.exc, B_except)
        THEN [sessions |-> s2, ret |-> FALLBACK, prompt |-> prompt, raised |-> None]
        ELSE [sessions |-> s2, ret |-> None, prompt |-> prompt, raised |-> o.exc]

\* ------------------------------------------------------------- the handler
create_session(s, c) ==
    IF variant = "A" THEN A_create_session(s, c) ELSE B_create_session(s, c)

end_session(s, c) ==
    IF variant = "A" THEN A_remove_session(s, c) ELSE B_end_session(s, c)

\* genai.generate_text is a synchronous call made on the event loop: while
\* it has not returned, no coroutine of the process runs.
LoopBlocked == \E k \in Conns : pc[k] = "hung"

\* Mutant of CanReceive: events are taken while the handler is still busy
\* with an earlier one (each event handled in a task of its own).
CanReceive_any(k) == pc[k] \in {"recv", "await", "send"} /\ ~closed[k] /\ ~LoopBlocked

\* `data = await websocket.receive_text()` returns an event: the handler is
\* at the top of its loop and the peer has not closed.
CanReceive(k) == pc[k] = "recv" /\ ~closed[k] /\ ~LoopBlocked

\* Mutant of Handler_except: the clause names another exception.
Handler_except_key == "KeyError"

\* The except clause around get_response / send_message in the handler.
Handler_except == "ValueError"

TextMessage(token) == [type |-> "text", token |-> token, last |-> TRUE]

Step(k, op) == [conn |-> k, op |-> op]

\* The state once the module is imported (llm = GeminiLLM()) and the
\* connections are accepted, with b prompts to come.
\* self.documents = {}
NoDocuments == [id \in {} |-> None]

\* The module-level singletons of content_processor.py: an empty retriever.
ContentInit ==
    /\ clock = 0
    /\ documents = NoDocuments
    /\ chunks = <<>>
    /\ ret = [op |-> "none"]

SessionInit(b) ==
    /\ variant \in {"A", "B"}
    /\ sessions = EmptySessions
    /\ pc = [k \in Conns |-> "recv"]
    /\ callSid = [k \in Conns |-> None]
    /\ user_prompt = [k \in Conns |-> None]
    /\ req = [k \in Conns |-> "none"]
    /\ resp = [k \in Conns |-> None]
    /\ closed = [k \in Conns |-> FALSE]
    /\ out = [k \in Conns |-> <<>>]
    /\ asked = [k \in Conns |-> <<>>]
    /\ last = Step(None, "init")
    /\ budget = b

InitWith(b) == SessionInit(b) /\ ContentInit

Init == InitWith(MaxPrompts)

\* ------------------------------------------------------------------ events
\* {"type": "setup", "callSid": c}: lines 40-44 of both handlers.
RecvSetup(k, c) ==
    /\ CanReceive(k)
    /\ callSid' = [callSid EXCEPT ![k] = c]
    /\ sessions' = create_session(sessions, c)
    /\ req' = Detach(req, c)
    /\ last' = Step(k, "setup")
    /\ UNCHANGED <<variant, pc, user_prompt, resp, closed, out, asked, budget>>
    /\ UNCHANGED cvars

\* The guard of the prompt branch in src/main.py.
A_drops(k) == callSid[k] = None \/ ~A_has_session(sessions, callSid[k])

\* Mutant of B_drops: the guard of the other handler.
B_drops_strict(k) == callSid[k] = None \/ ~B_has_session(sessions, callSid[k])

\* The guard of the prompt branch in src/services/api/main.py.
B_drops(k) == callSid[k] = None

\* get_response of src/llm.py up to its await: the session is looked up
\* and a miss raises ValueError before the backend is called.
A_get_response_begin(s, c) ==
    IF A_get_session(s, c) = None
    THEN [raised |-> "ValueError", awaits |-> FALSE]
    ELSE [raised |-> None, awaits |-> TRUE]

\* Lines 51-69 of src/main.py up to the await: the prompt is read, then
\* get_response runs inside the try whose only handler is
\* `except ValueError: continue`.
PromptBodyA(k, m) ==
    /\ user_prompt' = [user_prompt EXCEPT ![k] = m]
    /\ LET g == A_get_response_begin(sessions, callSid[k])
       IN  IF ~g.awaits
           THEN /\ pc' = [pc EXCEPT ![k] =
                            IF IsInstance(g.raised, Handler_except)
                            THEN "recv" ELSE "crashed"]
                /\ UNCHANGED <<req, asked, budget>>
           ELSE /\ budget > 0
                /\ budget' = budget - 1
                /\ asked' = [asked EXCEPT ![k] = Append(@, m)]
                /\ req' = [req EXCEPT ![k] = "mapped"]
                /\ pc' = [pc EXCEPT ![k] = "await"]

\* {"type": "prompt", "voicePrompt": m} in src/main.py, up to the await
\* inside get_response.
RecvPromptA(k, m) ==
    /\ variant = "A"
    /\ CanReceive(k)
    /\ last' = Step(k, "prompt")
    /\ IF A_drops(k)
       THEN UNCHANGED <<pc, user_prompt, req, asked, budget>>
       ELSE PromptBodyA(k, m)
    /\ UNCHANGED <<variant, sessions, callSid, resp, closed, out>>
    /\ UNCHANGED cvars

\* get_response called for the connection's call whether or not a session
\* exists: the try block of lines 54-69 without the guard of line 47.
CallGetResponse(k, m) ==
    /\ variant = "A"
    /\ CanReceive(k)
    /\ last' = Step(k, "request")
    /\ PromptBodyA(k, m)
    /\ UNCHANGED <<variant, sessions, callSid, resp, closed, out>>
    /\ UNCHANGED cvars

\* send_message_async returns or raises; get_response returns
\* response.text; the handler's `except ValueError`.
CompleteA(k, o) ==
    /\ variant = "A"
    /\ pc[k] = "await"
    /\ req' = [req EXCEPT ![k] = "none"]
    /\ last' = Step(k, "complete")
    /\ IF o.kind = "ok"
       THEN /\ sessions' = A_record_turns(sessions, req[k], callSid[k],
                                          user_prompt[k], o.result)
            /\ resp' = [resp EXCEPT ![k] = o.result]
            /\ pc' = [pc EXCEPT ![k] = "send"]
       ELSE /\ pc' = [pc EXCEPT ![k] =
                        IF IsInstance(o.exc, Handler_except) THEN "recv" ELSE "crashed"]
            /\ UNCHANGED <<sessions, resp>>
    /\ UNCHANGED <<variant, callSid, user_prompt, closed, out, asked, budget>>
    /\ UNCHANGED cvars

\* {"type": "prompt", "voicePrompt": m} in src/services/api/main.py, through
\* the synchronous send_message, up to `await websocket.send_text`.
RecvPromptB(k, m, o) ==
    /\ variant = "B"
    /\ CanReceive(k)
    /\ last' = Step(k, "prompt")
    /\ IF B_drops(k)
       THEN UNCHANGED <<sessions, pc, user_prompt, resp, asked, budget>>
       ELSE LET r == B_send_message(sessions, callSid[k], m, o)
            IN  /\ budget > 0
                /\ budget' = budget - 1
                /\ user_prompt' = [user_prompt EXCEPT ![k] = m]
                /\ asked' = [asked EXCEPT ![k] = Append(@, m)]
                /\ sessions' = r.sessions
                /\ IF r.raised = None
                   THEN /\ resp' = [resp EXCEPT ![k] = r.ret]
                        /\ pc' = [pc EXCEPT ![k] = "send"]
                   ELSE /\ pc' = [pc EXCEPT ![k] =
                               IF IsInstance(r.raised, Handler_except)
                               THEN "recv" ELSE "crashed"]
                        /\ UNCHANGED resp
    /\ UNCHANGED <<variant, callSid, req, closed, out>>
    /\ UNCHANGED cvars

\* The same event when genai.generate_text never returns: the user turn is
\* in the history and the event loop stays blocked in the call.
HangB(k, m) ==
    /\ variant = "B"
    /\ CanReceive(k)
    /\ ~B_drops(k)
    /\ budget > 0
    /\ budget' = budget - 1
    /\ user_prompt' = [user_prompt EXCEPT ![k] = m]
    /\ asked' = [asked EXCEPT ![k] = Append(@, m)]
    /\ sessions' = B_with_user(sessions, callSid[k], m)
    /\ last' = Step(k, "prompt")
    /\ pc' = [pc EXCEPT ![k] = "hung"]
    /\ UNCHANGED <<variant, callSid, req, resp, closed, out>>
    /\ UNCHANGED cvars

\* The outer `except WebSocketDisconnect` clause: end the session of the
\* connection's call, if it has one.
Cleanup(k) ==
    IF callSid[k] # None
    THEN /\ sessions' = end_session(sessions, callSid[k])
         /\ req' = Detach(req, callSid[k])
    ELSE UNCHANGED <<sessions, req>>

\* `await websocket.send_text(json.dumps({...}))`.  On an open transport the
\* message goes out; on a closed one the call does one of SendOutcomes, and
\* WebSocketDisconnect reaches the handler's outer except clause.
Send(k, so) ==
    /\ pc[k] = "send"
    /\ ~LoopBlocked
    /\ closed[k] \/ so = "sent"
    /\ out' = [out EXCEPT ![k] =
                  Append(@, [msg |-> TextMessage(resp[k]), prompt |-> Len(asked[k])])]
    /\ pc' = [pc EXCEPT ![k] =
                 CASE so = "sent" -> "recv"
                   [] so = "WebSocketDisconnect" -> "done"
                   [] OTHER -> "crashed"]
    /\ IF so = "WebSocketDisconnect" THEN Cleanup(k) ELSE UNCHANGED <<sessions, req>>
    /\ last' = Step(k, "send")
    /\ UNCHANGED <<variant, callSid, user_prompt, resp, closed, asked, budget>>
    /\ UNCHANGED cvars

\* Mutant of RecvInterrupt: a barge-in that starts the conversation over.
RecvInterrupt_resets(k) ==
    /\ CanReceive(k)
    /\ callSid[k] # None
    /\ sessions' = create_session(sessions, callSid[k])
    /\ last' = Step(k, "interrupt")
    /\ UNCHANGED <<variant, pc, callSid, user_prompt, req, resp, closed, out, asked, budget>>
    /\ UNCHANGED cvars

\* {"type": "interrupt"}: logged.
RecvInterrupt(k) ==
    /\ CanReceive(k)
    /\ last' = Step(k, "interrupt")
    /\ UNCHANGED <<variant, sessions, pc, callSid, user_prompt, req, resp, closed,
                   out, asked, budget>>
    /\ UNCHANGED cvars

\* Any other "type": logged as unknown.
RecvUnknown(k) ==
    /\ CanReceive(k)
    /\ last' = Step(k, "other")
    /\ UNCHANGED <<variant, sessions, pc, callSid, user_prompt, req, resp, closed,
                   out, asked, budget>>
    /\ UNCHANGED cvars

\* A frame that makes json.loads or a subscript raise (JSONDecodeError,
\* KeyError).  Neither is raised inside the inner try, and the outer except
\* names WebSocketDisconnect only: the exception leaves the handler.  A
\* prompt without voicePrompt is subscripted only after the drop guard.
RecvMalformed(k, kind) ==
    /\ CanReceive(k)
    /\ pc' = [pc EXCEPT ![k] =
                 IF kind = "prompt_noprompt" /\
                    (IF variant = "A" THEN A_drops(k) ELSE B_drops(k))
                 THEN "recv" ELSE "crashed"]
    /\ last' = Step(k, kind)
    /\ UNCHANGED <<variant, sessions, callSid, user_prompt, req, resp, closed,
                   out, asked, budget>>
    /\ UNCHANGED cvars

\* The peer closes the transport.
Close(k) ==
    /\ ~closed[k]
    /\ pc[k] \notin {"done", "crashed"}
    /\ closed' = [closed EXCEPT ![k] = TRUE]
    /\ last' = Step(k, "close")
    /\ UNCHANGED <<variant, sessions, pc, callSid, user_prompt, req, resp,
                   out, asked, budget>>
    /\ UNCHANGED cvars

\* receive_text raises WebSocketDisconnect: the outer except clause.
Disconnect(k) ==
    /\ pc[k] = "recv"
    /\ closed[k]
    /\ ~LoopBlocked
    /\ pc' = [pc EXCEPT ![k] = "done"]
    /\ Cleanup(k)
    /\ last' = Step(k, "disconnect")
    /\ UNCHANGED <<variant, callSid, user_prompt, resp, closed, out, asked, budget>>
    /\ UNCHANGED cvars

Next ==
    \/ \E k \in Conns, c \in Calls : RecvSetup(k, c)
    \/ \E k \in Conns, m \in Msgs : RecvPromptA(k, m)
    \/ \E k \in Conns, o \in ChatOutcomes : CompleteA(k, o)
    \/ \E k \in Conns, m \in Msgs, o \in BackendOutcomes : RecvPromptB(k, m, o)
    \/ \E k \in Conns, m \in Msgs : HangB(k, m)
    \/ \E k \in Conns, so \in SendOutcomes : Send(k, so)
    \/ \E k \in Conns : RecvInterrupt(k)
    \/ \E k \in Conns : RecvUnknown(k)
    \/ \E k \in Conns, kind \in MalformedKinds : RecvMalformed(k, kind)
    \/ \E k \in Conns : Close(k)
    \/ \E k \in Conns : Disconnect(k)

Spec == Init /\ [][Next]_vars

\* One connection of the stateless server talking at length on one call:
\* the histories that outgrow the context window.
InitLong ==
    /\ InitWith(LongPrompts)
    /\ variant = "B"

\* The backend answers with a text or fails.
LongOutcomes == {o \in BackendOutcomes : o.result # "" \/ o.exc = "ApiError"}

NextLong ==
    \/ RecvSetup("k1", "c1")
    \/ \E m \in LongMsgs, o \in LongOutcomes : RecvPromptB("k1", m, o)
    \/ Send("k1", "sent")

SpecLong == InitLong /\ [][NextLong]_vars

\* The handler coroutines are scheduled by the event loop: a handler that
\* can run its except clause or its send does so, and a completion that is
\* awaited returns or raises.  Nothing obliges the peer to send or to close,
\* and a synchronous backend call that hangs (HangB) stays hung.
HandlerStep(k) ==
    \/ Disconnect(k)
    \/ \E so \in SendOutcomes : Send(k, so)
    \/ \E o \in ChatOutcomes : CompleteA(k, o)

FairSpec == Spec /\ \A k \in Conns : WF_vars(HandlerStep(k))

\* The strict manager driven through get_response directly: a request may
\* name a call whose session is absent.
InitStrict == InitWith(MaxPrompts) /\ variant = "A"

NextStrict ==
    \/ \E k \in Conns, c \in Calls : RecvSetup(k, c)
    \/ \E k \in Conns, m \in Msgs : CallGetResponse(k, m)
    \/ \E k \in Conns, o \in ChatOutcomes : CompleteA(k, o)
    \/ \E k \in Conns, so \in SendOutcomes : Send(k, so)
    \/ \E k \in Conns : Close(k)
    \/ \E k \in Conns : Disconnect(k)

SpecStrict == InitStrict /\ [][NextStrict]_vars

Min(a, b) == IF a <= b THEN a ELSE b

\* ------------------------------------------------ content pipeline: text
\* A text is a sequence of characters.  The character "#" stands for the
\* character run of a special token of the encoding ("<|endoftext|>").
Max(a, b) == IF a >= b THEN a ELSE b

Whitespace == {" ", "\n"}
SpecialToken == "#"

\* str.strip()
Strip(t) ==
    IF \A i \in 1 .. Len(t) : t[i] \in Whitespace
    THEN <<>>
    ELSE LET lo == CHOOSE i \in 1 .. Len(t) :
                       /\ t[i] \notin Whitespace
                       /\ \A j \in 1 .. (i - 1) : t[j] \in Whitespace
             hi == CHOOSE i \in 1 .. Len(t) :
                       /\ t[i] \notin Whitespace
                       /\ \A j \in (i + 1) .. Len(t) : t[j] \in Whitespace
         IN  SubSeq(t, lo, hi)

\* text[-k:] for k > 0 and text[:j], with Python's reading of a negative j.
PyTail(t, k) == SubSeq(t, Max(1, Len(t) - k + 1), Len(t))
PyHead(t, j) ==
    IF j >= 0 THEN SubSeq(t, 1, Min(j, Len(t)))
    ELSE SubSeq(t, 1, Max(0, Len(t) + j))

\* str.rfind(e): the 0-based index of the last occurrence of e, or -1.
rfind(t, e) ==
    LET P == {p \in 0 .. (Len(t) - Len(e)) : SubSeq(t, p + 1, p + Len(e)) = e}
    IN  IF P = {} THEN -1 ELSE CHOOSE p \in P : \A q \in P : q <= p

\* self.encoding.encode with its default disallowed_special="all": a text
\* holding a special token is refused with ValueError; any other text
\* becomes its tokens, one per character in this model.
encode(t) ==
    IF \E i \in 1 .. Len(t) : t[i] = SpecialToken
    THEN [raised |-> "ValueError", tokens |-> <<>>]
    ELSE [raised |-> None, tokens |-> [i \in 1 .. Len(t) |-> <<"tok", t[i]>>]]

\* self.encoding.decode
decode(tokens) == [i \in 1 .. Len(tokens) |-> tokens[i][2]]

\* ---------------------------------------------- ContentProcessor: chunker
max_chunk_tokens == 500
chunk_overlap == 50

sentence_endings == << <<".">>, <<"!">>, <<"?">>, <<"\n", "\n">> >>

\* _adjust_chunk_boundary
adjust_chunk_boundary(text) ==
    IF Len(text) < 50
    THEN text
    ELSE LET last_part == PyTail(text, 100)
             found == {rfind(last_part, sentence_endings[i]) :
                          i \in 1 .. Len(sentence_endings)}
             far == {pos \in found : pos > 20}
             best_split == IF far = {} THEN -1
                           ELSE CHOOSE p \in far : \A q \in far : q <= p
         IN  IF best_split > 0
             THEN Strip(PyHead(text, Len(text) - 100 + best_split + 1))
             ELSE Strip(text)

\* Mutant of fits_one_chunk: a text of exactly max_chunk_tokens is split.
fits_one_chunk_strict(n) == n < max_chunk_tokens

\* len(tokens) <= self.max_chunk_tokens
fits_one_chunk(n) == n <= max_chunk_tokens

\* Mutant of range_step: windows laid end to end.
range_step_no_overlap == max_chunk_tokens

\* The step of range(0, len(tokens), max_chunk_tokens - chunk_overlap).
range_step == max_chunk_tokens - chunk_overlap

\* range(0, n, range_step) as the sequence of its values.
range_starts(n) ==
    LET R == {i \in 0 .. (n - 1) : i % range_step = 0}
    IN  [j \in 1 .. Cardinality(R) |-> (j - 1) * range_step]

\* {**doc_metadata, "chunk_index": i, "total_chunks": total}
chunk_metadata(doc_metadata, i, total) ==
    [url |-> doc_metadata.url, name |-> doc_metadata.name,
     tag |-> doc_metadata.tag, scraped_at |-> doc_metadata.scraped_at,
     content_type |-> doc_metadata.content_type,
     word_count |-> doc_metadata.word_count,
     char_count |-> doc_metadata.char_count,
     chunk_index |-> i, total_chunks |-> total]

ProcessedChunk(content, metadata, token_count) ==
    [content |-> content, metadata |-> metadata, token_count |-> token_count]

\* Mutant of chunk_window: a window as long as the stride.
chunk_window_stride(tokens, i) ==
    SubSeq(tokens, i + 1, Min(i + range_step, Len(tokens)))

\* chunk_tokens = tokens[i:i + self.max_chunk_tokens]
chunk_window(tokens, i) ==
    SubSeq(tokens, i + 1, Min(i + max_chunk_tokens, Len(tokens)))

\* Mutant of backfill: the placeholder is left in place.
backfill_skipped(cs) == cs

\* for chunk in chunks: chunk.metadata["total_chunks"] = len(chunks)
backfill(cs) ==
    [j \in 1 .. Len(cs) |-> [cs[j] EXCEPT !.metadata.total_chunks = Len(cs)]]

\* _chunk_content: what it returns, or the exception encode raised, and
\* the windows its loop took (the value of i and the length of
\* chunk_tokens in each round).
chunk_content(content, doc_metadata) ==
    IF Strip(content) = <<>>
    THEN [raised |-> None, chunks |-> <<>>, windows |-> <<>>]
    ELSE LET enc == encode(content)
             tokens == enc.tokens
             n == Len(tokens)
             starts == range_starts(n)
             appended == [j \in 1 .. Len(starts) |->
                            LET chunk_tokens == chunk_window(tokens, starts[j])
                            IN  ProcessedChunk(
                                    adjust_chunk_boundary(decode(chunk_tokens)),
                                    chunk_metadata(doc_metadata, j - 1, -1),
                                    Len(chunk_tokens))]
         IN  IF enc.raised # None
             THEN [raised |-> enc.raised, chunks |-> <<>>, windows |-> <<>>]
             ELSE IF fits_one_chunk(n)
             THEN [raised |-> None,
                   chunks |-> <<ProcessedChunk(content,
                                   chunk_metadata(doc_metadata, 0, 1), n)>>,
                   windows |-> <<>>]
             ELSE [raised |-> None,
                   chunks |-> backfill(appended),
                   windows |-> [j \in 1 .. Len(starts) |->
                                  [i |-> starts[j],
                                   len |-> Len(chunk_window(tokens, starts[j]))]]]

\* --------------------------------------------- the chunker on its own
\* Texts handed to _chunk_content: running prose of every length up to
\* MaxTokens, and blank texts and texts holding a special token at the
\* lengths around the single-chunk limit.
Prose(n) ==
    [i \in 1 .. n |-> IF i % 40 = 0 THEN "."
                      ELSE IF i % 8 = 0 THEN " " ELSE "a"]
Blank(n) == [i \in 1 .. n |-> " "]
Marked(n) == [i \in 1 .. n |-> IF i = 1 THEN SpecialToken ELSE "a"]

ChunkTexts ==
    {Prose(n) : n \in 0 .. MaxTokens}
        \cup {Blank(n) : n \in {1, max_chunk_tokens + 1}}
        \cup {Marked(n) : n \in {1, max_chunk_tokens, max_chunk_tokens + 1}}

\* The metadata a caller of _chunk_content passes along.
SomeMetadata ==
    [url |-> <<"u", "1">>, name |-> <<"T">>, tag |-> "Untagged",
     scraped_at |-> 0, content_type |-> "webpage",
     word_count |-> 0, char_count |-> 0]

InitChunk ==
    /\ SessionInit(0)
    /\ variant = "B"
    /\ clock = 0
    /\ documents = NoDocuments
    /\ chunks = <<>>
    /\ ret \in {[op |-> "text", content |-> t] : t \in ChunkTexts}

\* chunks = self._chunk_content(content, doc_metadata)
ChunkContent ==
    /\ ret.op = "text"
    /\ ret' = [op |-> "chunk_content", content |-> ret.content,
               out |-> chunk_content(ret.content, SomeMetadata)]
    /\ UNCHANGED <<svars, clock, documents, chunks>>

NextChunk == ChunkContent

SpecChunk == InitChunk /\ [][NextChunk]_vars

\* ------------------------------------- ContentProcessor: process_url
\* Literal texts of content_processor.py.
ERROR_PROCESSING_URL ==
    <<"E", "r", "r", "o", "r", " ", "p", "r", "o", "c", "e", "s", "s",
      "i", "n", "g", " ", "U", "R", "L", " ">>
HTTP == <<"H", "T", "T", "P", " ">>
FAILED_TO_FETCH ==
    <<":", " ", "F", "a", "i", "l", "e", "d", " ", "t", "o", " ",
      "f", "e", "t", "c", "h", " ">>
UNTITLED_DOCUMENT ==
    <<"U", "n", "t", "i", "t", "l", "e", "d", " ", "D", "o", "c", "u",
      "m", "e", "n", "t">>
COLON == <<":", " ">>
STATUS_OK == <<"2", "0", "0">>

\* What tiktoken says when it refuses a text: the message quotes the
\* special token it met.
DISALLOWED_SPECIAL ==
    <<"d", "i", "s", "a", "l", "l", "o", "w", "e", "d", " ", SpecialToken>>

Exc(type, message) == [type |-> type, message |-> message]
\* No exception was raised.
NoExc == Exc(None, <<>>)

\* re.sub(r'\s+', ' ', text): every run of whitespace becomes one space.
RECURSIVE normalize_whitespace(_)
normalize_whitespace(t) ==
    IF Len(t) = 0 THEN <<>>
    ELSE IF Len(t) = 1 THEN (IF t[1] \in Whitespace THEN <<" ">> ELSE t)
    ELSE LET h == Len(t) \div 2
             a == normalize_whitespace(SubSeq(t, 1, h))
             b == normalize_whitespace(SubSeq(t, h + 1, Len(t)))
         IN  IF a[Len(a)] = " " /\ b[1] = " " THEN a \o Tail(b) ELSE a \o b

\* str.split(): the maximal runs of non-whitespace characters, by the
\* index each starts at.
word_starts(t) ==
    {i \in 1 .. Len(t) :
        t[i] \notin Whitespace /\ (i = 1 \/ t[i - 1] \in Whitespace)}
word_at(t, i) ==
    LET j == CHOOSE j \in i .. Len(t) :
                 /\ \A m \in i .. j : t[m] \notin Whitespace
                 /\ (j = Len(t) \/ t[j + 1] \in Whitespace)
    IN  SubSeq(t, i, j)

\* _scrape_url: the GET raises, or answers with a status and a page.
scrape_url(url, web) ==
    IF web.kind = "raise"
    THEN [raised |-> Exc(web.exc, web.message), html |-> None]
    ELSE IF web.status # STATUS_OK
    THEN [raised |-> Exc("Exception",
                         HTTP \o web.status \o FAILED_TO_FETCH \o url),
          html |-> None]
    ELSE [raised |-> NoExc, html |-> web.page]

\* _extract_main_content.  A page is what BeautifulSoup makes of the
\* markup: whether it parses at all, its <title> and <h1> (found or not, and
\* their text) and the text of the element the selectors settle on.
extract_main_content(html) ==
    IF ~html.parses
    THEN [raised |-> Exc("ParserRejectedMarkup", <<"m", "a", "r", "k", "u", "p">>),
          text |-> None]
    ELSE [raised |-> NoExc, text |-> Strip(normalize_whitespace(html.main))]

\* _extract_title
extract_title(html) ==
    IF html.title.found THEN Strip(html.title.text)
    ELSE IF html.h1.found THEN Strip(html.h1.text)
    ELSE UNTITLED_DOCUMENT

\* hash(url) % 10000
UrlHash(url) == IF url[Len(url)] = "1" THEN 4711 ELSE IF url[Len(url)] = "2" THEN 815 ELSE 42

ProcessedDocument(id, cs, metadata, total_tokens) ==
    [id |-> id, chunks |-> cs, metadata |-> metadata,
     total_tokens |-> total_tokens]

\* sum(chunk.token_count for chunk in chunks)
RECURSIVE sum_token_count(_)
sum_token_count(cs) ==
    IF cs = <<>> THEN 0
    ELSE cs[1].token_count + sum_token_count(Tail(cs))

\* The except clause of process_url: the error message is encoded for its
\* token count, and encode can refuse it.
error_document(url, e, now) ==
    LET message == ERROR_PROCESSING_URL \o url \o COLON \o e.message
        enc == encode(message)
        error_chunk == ProcessedChunk(message, [error |-> TRUE, url |-> url],
                                      Len(enc.tokens))
    IN  IF enc.raised # None
        THEN [raised |-> enc.raised, doc |-> None]
        ELSE [raised |-> None,
              doc |-> ProcessedDocument(<<"error", now>>, <<error_chunk>>,
                          [url |-> url, error |-> e.message],
                          error_chunk.token_count)]

\* process_url: the document it returns or the exception that leaves it,
\* and the step that failed, if one did.
process_url(url, name, tag, web, now) ==
    LET scraped == scrape_url(url, web)
        raw_content == scraped.html
        extracted == extract_main_content(raw_content)
        clean_content == extracted.text
        doc_metadata ==
            [url |-> url,
             name |-> IF name # <<>> THEN name
                      ELSE extract_title(raw_content),
             tag |-> tag, scraped_at |-> now, content_type |-> "webpage",
             word_count |-> Cardinality(word_starts(clean_content)),
             char_count |-> Len(clean_content)]
        chunked == chunk_content(clean_content, doc_metadata)
        failure(step, e) ==
            [failed |-> step] @@ error_document(url, e, now)
    IN  IF scraped.raised.type # None THEN failure("fetch", scraped.raised)
        ELSE IF extracted.raised.type # None
        THEN failure("extract", extracted.raised)
        ELSE IF chunked.raised # None
        THEN failure("chunk", Exc(chunked.raised, DISALLOWED_SPECIAL))
        ELSE [failed |-> None, raised |-> None,
              doc |-> ProcessedDocument(<<"doc", now, UrlHash(url) % 10000>>,
                          chunked.chunks, doc_metadata,
                          sum_token_count(chunked.chunks))]

\* ---------------------------------------------- process_url on its own
Urls == {<<"u", "1">>, <<"u", "2">>, <<"u", SpecialToken>>}
\* name: the default None (the empty text stands for it: `name or ...`
\* takes both the same way) or a name.
Names == {<<>>, <<"N">>}

Page(title, h1, main) ==
    [parses |-> TRUE, title |-> title, h1 |-> h1, main |-> main]
Response(status, page) == [kind |-> "response", status |-> status, page |-> page]

HELLO == <<" ", "H", "e", "l", "l", "o", " ", "\n", "w", "o", "r", "l", "d", ".", " ">>

Tag(text) == [found |-> TRUE, text |-> text]
NoTag == [found |-> FALSE, text |-> <<>>]

Pages ==
    {Page(Tag(<<"T">>), NoTag, HELLO),
     Page(NoTag, Tag(<<"H">>), <<"a", " ", "b">>),
     Page(NoTag, NoTag, <<" ", "\n">>),
     Page(Tag(<<"T">>), NoTag, <<"a", SpecialToken>>),
     Page(Tag(<<"T">>), NoTag, Prose(max_chunk_tokens + 1)),
     [Page(NoTag, NoTag, <<>>) EXCEPT !.parses = FALSE]}

\* What the GET of a URL can come to.
Webs ==
    {[kind |-> "raise", exc |-> "ClientConnectorError",
      message |-> <<"n", "o", " ", "h", "o", "s", "t">>],
     [kind |-> "raise", exc |-> "TimeoutError", message |-> <<>>],
     Response(<<"4", "0", "4">>, Page(NoTag, NoTag, <<>>))}
        \cup {Response(STATUS_OK, p) : p \in Pages}

\* A second of wall-clock time passes.
Tick ==
    /\ clock < MaxClock
    /\ clock' = clock + 1
    /\ UNCHANGED <<svars, documents, chunks, ret>>

\* doc = await content_processor.process_url(url, name)
ProcessUrl(url, name, web) ==
    /\ ret' = [op |-> "process_url", url |-> url, name |-> name,
               out |-> process_url(url, name, "Untagged", web, clock)]
    /\ UNCHANGED <<svars, clock, documents, chunks>>

InitProcess == InitWith(0) /\ variant = "B"

NextProcess ==
    \/ Tick
    \/ \E url \in Urls, name \in Names, web \in Webs : ProcessUrl(url, name, web)

SpecProcess == InitProcess /\ [][NextProcess]_vars

\* ------------------------------------------------- SimpleRAGRetriever
\* add_document: self.documents[doc.id] = doc; self.chunks.extend(doc.chunks)
add_document(docs, cs, doc) ==
    [documents |-> DictSet(docs, doc.id, doc), chunks |-> cs \o doc.chunks]

\* get_document_stats: the counts it reports (the list of domains is left
\* out).
get_document_stats(docs, cs) ==
    [total_documents |-> Cardinality(DOMAIN docs),
     total_chunks |-> Len(cs),
     total_tokens |-> sum_token_count(cs)]

UPPER == <<"A", "B", "C", "D", "E", "F", "G", "H", "I", "J", "K", "L", "M",
           "N", "O", "P", "Q", "R", "S", "T", "U", "V", "W", "X", "Y", "Z">>
LOWER == <<"a", "b", "c", "d", "e", "f", "g", "h", "i", "j", "k", "l", "m",
           "n", "o", "p", "q", "r", "s", "t", "u", "v", "w", "x", "y", "z">>

lower_of ==
    [ch \in {UPPER[u] : u \in 1 .. Len(UPPER)} |->
        LOWER[CHOOSE u \in 1 .. Len(UPPER) : UPPER[u] = ch]]

\* str.lower()
lower(t) ==
    [i \in 1 .. Len(t) |->
        IF t[i] \in DOMAIN lower_of THEN lower_of[t[i]] ELSE t[i]]

\* set(text.split())
words(t) == {word_at(t, i) : i \in word_starts(t)}

\* str.count(q) from index `from` on: occurrences that do not overlap,
\* taken from the left; the empty text occurs between any two characters
\* and at both ends.
RECURSIVE count_from(_, _, _)
count_from(t, q, from) ==
    LET at(p) == SubSeq(t, p, p + Len(q) - 1) = q
        ends == Len(t) - Len(q) + 1
    IN  IF q = <<>> THEN Len(t) + 1
        ELSE IF ~(\E p \in from .. ends : at(p)) THEN 0
        ELSE LET first == CHOOSE p \in from .. ends :
                              at(p) /\ \A p2 \in from .. (p - 1) : ~at(p2)
             IN  1 + count_from(t, q, first + Len(q))
count(t, q) == count_from(t, q, 1)

\* The score search gives one chunk.
score(query_lower, content_lower) ==
    LET query_words == words(query_lower)
        content_words == words(content_lower)
        word_overlap == Cardinality(query_words \cap content_words)
        phrase_matches == count(content_lower, query_lower)
    IN  word_overlap + phrase_matches * 2

\* Mutant of keeps: every chunk is a hit.
keeps_any(s) == s >= 0

\* if score > 0: scored_chunks.append((chunk, score))
keeps(s) == s > 0

\* search: the chunks it returns, each by its position in self.chunks.
\* list.sort(key=..., reverse=True) is stable: hits with equal scores
\* keep the order they were appended in.
search(cs, query, top_k) ==
    LET query_lower == lower(query)
        scores == [i \in 1 .. Len(cs) |-> score(query_lower, lower(cs[i].content))]
        scored_chunks == {i \in 1 .. Len(cs) : keeps(scores[i])}
        before(j, i) == scores[j] > scores[i] \/ (scores[j] = scores[i] /\ j < i)
        sorted == [r \in 1 .. Cardinality(scored_chunks) |->
                     CHOOSE i \in scored_chunks :
                         Cardinality({j \in scored_chunks : before(j, i)}) = r - 1]
    IN  SubSeq(sorted, 1, Min(top_k, Len(sorted)))

\* ------------------------------------------------ the retriever's index
\* rag_retriever.add_document(await content_processor.process_url(url))
AddDocument(url, web) ==
    LET processed == process_url(url, <<>>, "Untagged", web, clock)
        added == add_document(documents, chunks, processed.doc)
    IN  /\ processed.raised = None
        /\ documents' = added.documents
        /\ chunks' = added.chunks
        /\ ret' = [op |-> "add_document", doc |-> processed.doc]
        /\ UNCHANGED <<svars, clock>>

\* rag_retriever.search(query, top_k)
Search(query, top_k) ==
    /\ ret' = [op |-> "search", query |-> query, top_k |-> top_k,
               out |-> search(chunks, query, top_k)]
    /\ UNCHANGED <<svars, clock, documents, chunks>>

\* Documents of two URLs are processed and added as the seconds pass: a
\* failed fetch, a one-chunk page, a page of two chunks.
IndexUrls == {<<"u", "1">>, <<"u", "2">>}

IndexWebs ==
    {Response(<<"4", "0", "4">>, Page(NoTag, NoTag, <<>>)),
     Response(STATUS_OK, Page(Tag(<<"T">>), NoTag, <<"a", " ", "b">>)),
     Response(STATUS_OK, Page(Tag(<<"T">>), NoTag, Prose(max_chunk_tokens + 1)))}

InitIndex == InitWith(0) /\ variant = "B"

NextIndex ==
    \/ Tick
    \/ /\ Len(chunks) < MaxChunks
       /\ \E url \in IndexUrls, web \in IndexWebs : AddDocument(url, web)

SpecIndex == InitIndex /\ [][NextIndex]_vars

\* A corpus of short pages of one URL, searched between the adds.
SearchWebs ==
    {Response(STATUS_OK, Page(Tag(<<"T">>), NoTag, <<"a", " ", "b">>)),
     Response(STATUS_OK, Page(Tag(<<"T">>), NoTag,
                              <<"A", " ", "b", " ", "a", " ", "b">>)),
     Response(STATUS_OK, Page(Tag(<<"T">>), NoTag, <<"c">>))}

Queries == {<<"a", " ", "b">>, <<"B">>, <<"z">>, <<>>}

NextSearch ==
    \/ /\ Len(chunks) < MaxCorpus
       /\ \E web \in SearchWebs : AddDocument(<<"u", "1">>, web)
    \/ \E query \in Queries, top_k \in 0 .. MaxTopK : Search(query, top_k)

SpecSearch == InitIndex /\ [][NextSearch]_vars

\* ------------------------------------------------------------------ claims

RaiseOutcome(e) == [kind |-> "raise", result |-> "", exc |-> e]

\* C1: for every existing session c and every message, a send_message whose
\* backend call fails with any backend error does not raise, returns the
\* fixed fallback string, and leaves the session of c in the map.
C1_FailureReturnsFallback ==
    \A c \in DOMAIN sessions, m \in LongMsgs, e \in BackendErrors :
        LET r == B_send_message(sessions, c, m, RaiseOutcome(e))
        IN  /\ r.raised = None
            /\ r.ret = FALLBACK
            /\ B_has_session(r.sessions, c)

\* The stateless handler holds the fallback string of a failed send_message
\* and the session it failed on is still there, ending in the user turn.
C1_Witness ==
    \E k \in Conns :
        /\ variant = "B"
        /\ pc[k] = "send"
        /\ resp[k] = FALLBACK
        /\ callSid[k] \in DOMAIN sessions
        /\ sessions[callSid[k]] # <<>>
        /\ sessions[callSid[k]][Len(sessions[callSid[k]])] = UserTurn(user_prompt[k])

\* C2: whatever createSession and sendMessage calls came before, the prompt
\* send_message hands to the backend begins with the system instruction and
\* its context lines are the last min(10, |history|) entries of the history
\* (the new user turn included), oldest first.
C2_ContextIsLastTen ==
    \A c \in DOMAIN sessions, m \in LongMsgs, o \in BackendOutcomes :
        LET h == Append(sessions[c], UserTurn(m))
            p == B_send_message(sessions, c, m, o).prompt
            turns == SubSeq(p, 3, Len(p) - 1)
        IN  /\ p[1] = SYSTEM_PROMPT
            /\ Len(turns) = Min(10, Len(h))
            /\ Len(turns) <= 10
            /\ \A i \in 1 .. Len(turns) : turns[i] = h[Len(h) - Len(turns) + i]

\* A history longer than the context window, built by prompts of which two
\* differ, so that dropping or reordering a turn shows.
C2_Witness ==
    \E c \in DOMAIN sessions :
        /\ Len(sessions[c]) > 10
        /\ \E i, j \in 1 .. Len(sessions[c]) :
               /\ sessions[c][i][1] = "User"
               /\ sessions[c][j][1] = "User"
               /\ sessions[c][i][2] # sessions[c][j][2]

\* C3: from every reachable session map and for every call id c,
\* create_session(c) followed by remove_session(c) / end_session(c) leaves
\* no session for c, in the stateful and in the stateless variant.
C3_CreateThenEndLeavesNone ==
    \A c \in Calls :
        /\ ~A_has_session(A_remove_session(A_create_session(sessions, c), c), c)
        /\ ~B_has_session(B_end_session(B_create_session(sessions, c), c), c)

\* A connection set up a call and its disconnect just ended the session.
C3_Witness ==
    \E k \in Conns :
        /\ last = Step(k, "disconnect")
        /\ callSid[k] # None
        /\ callSid[k] \notin DOMAIN sessions

\* C10: create_session(c) always yields a map in which c has an empty
\* history, whether c was absent or present with any history, and a second
\* create_session(c) changes nothing more (in both variants).
C10_CreateIsIdempotentReset ==
    \A c \in Calls :
        LET a1 == A_create_session(sessions, c)
            b1 == B_create_session(sessions, c)
        IN  /\ A_has_session(a1, c) /\ a1[c] = <<>>
            /\ B_has_session(b1, c) /\ b1[c] = <<>>
            /\ A_create_session(a1, c) = a1
            /\ B_create_session(b1, c) = b1

\* A setup has just re-initialised the session of a call on which the same
\* connection had already been answered.
C10_Witness ==
    \E k \in Conns :
        /\ last = Step(k, "setup")
        /\ out[k] # <<>>
        /\ sessions[callSid[k]] = <<>>

\* The session of call d as an observer sees it: absent, or its history.
SessionOf(s, d) == IF d \in DOMAIN s THEN <<"ACTIVE", s[d]>> ELSE <<"NONE">>

\* Connection k has no session: no setup yet, or the session of its call is
\* gone from the map.
NoSession(k) == callSid[k] = None \/ callSid[k] \notin DOMAIN sessions

\* The step is connection k taking a prompt event off the transport.
TakesPrompt(k) == pc[k] = "recv" /\ last' = Step(k, "prompt")

\* The prompt is dropped: nothing requested, no session touched, nothing
\* sent, the handler back at receive_text.
Dropped(k) ==
    /\ sessions' = sessions
    /\ asked' = asked
    /\ req' = req
    /\ out' = out
    /\ pc'[k] = "recv"

EventOps == {"setup", "prompt", "interrupt", "other"} \cup MalformedKinds

\* Connection k is busy with a prompt: its completion is awaited, or the
\* reply is not yet handed to the transport.
Busy(k) == pc[k] \in {"await", "send", "hung"}

\* The tags of out[k] are strictly increasing ordinals of prompts asked.
RepliesInOrder(k) ==
    /\ \A i \in 1 .. Len(out[k]) : out[k][i].prompt \in 1 .. Len(asked[k])
    /\ \A i, j \in 1 .. Len(out[k]) : i < j => out[k][i].prompt < out[k][j].prompt

\* In a history every reply turn directly follows the user turn it answers.
TurnsPaired(h) ==
    \A i \in 1 .. Len(h) :
        h[i][1] \in {"AI", "model"} => i > 1 /\ h[i - 1][1] \in {"User", "user"}

\* C8: while a connection is busy with a prompt its handler takes no further
\* event of that connection; so the replies of a connection go out in the
\* order of their prompts, and in every history each reply turn sits right
\* after its user turn.
C8_OneEventAtATime ==
    /\ [][\A k \in Conns : (Busy(k) /\ last'.conn = k) => last'.op \notin EventOps]_vars
    /\ [](\A k \in Conns : RepliesInOrder(k))
    /\ [](\A c \in DOMAIN sessions : TurnsPaired(sessions[c]))

\* One connection has been answered twice, each prompt after the reply to
\* the one before.
C8_Witness ==
    \E k \in Conns : Len(out[k]) = 2 /\ Len(asked[k]) = 2

\* C9: whatever the interleaving, a step changes the session (existence and
\* history) of no call other than the one its connection operates on.
C9_OtherCallsUntouched ==
    [][\A d \in Calls :
          d # callSid'[last'.conn] => SessionOf(sessions', d) = SessionOf(sessions, d)]_vars

\* Two calls are live with a history each, and the last step worked on one
\* of them.
C9_Witness ==
    \E c, d \in DOMAIN sessions :
        /\ c # d
        /\ sessions[c] # <<>>
        /\ sessions[d] # <<>>
        /\ last.conn \in Conns
        /\ callSid[last.conn] = c

\* The step returns connection k from a completion request: the awaited
\* chat call of the stateful handler, or the whole synchronous send_message
\* of the stateless one.
CompletionStep(k) ==
    \/ pc[k] = "await" /\ last' = Step(k, "complete")
    \/ variant = "B" /\ TakesPrompt(k) /\ asked'[k] # asked[k] /\ pc'[k] # "hung"

\* C6 as stated: however the backend fails, the handler stays in its event
\* loop (it goes on to send a reply or to receive the next event) and the
\* session of the call is not removed.
C6_Original ==
    [][\A k \in Conns :
          CompletionStep(k) =>
              /\ pc'[k] \in {"recv", "send"}
              /\ callSid[k] \in DOMAIN sessions => callSid[k] \in DOMAIN sessions'
      ]_vars

\* C7 as stated: every prompt a handler accepted gets exactly one outbound
\* message of type "text" with last = true, so a handler that is through
\* with its prompts has handed the transport as many messages as it
\* accepted prompts (no other event adds one).
C7_Original ==
    \A k \in Conns :
        ~Busy(k) =>
            /\ Len(out[k]) = Len(asked[k])
            /\ \A i \in 1 .. Len(out[k]) :
                   out[k][i].msg.type = "text" /\ out[k][i].msg.last = TRUE

\* C4 as stated: once the transport of a connection that set up call c is
\* closed, the session of c is eventually gone from the map.
C4_Original ==
    \A k \in Conns, c \in Calls :
        (closed[k] /\ callSid[k] = c) ~> (c \notin DOMAIN sessions)

\* C11: an interrupt event, and an event of a type the handler does not
\* know, change no session (none created, none removed, no history
\* touched) and leave every connection's call id as it was.
C11_InterruptAndUnknownChangeNothing ==
    [][\A k \in Conns :
          (pc[k] = "recv" /\ last' \in {Step(k, "interrupt"), Step(k, "other")})
              => /\ sessions' = sessions
                 /\ callSid' = callSid
                 /\ req' = req
      ]_vars

\* A connection has just taken an interrupt while its call has a session
\* with a history.
C11_Witness ==
    \E k \in Conns :
        /\ last = Step(k, "interrupt")
        /\ callSid[k] \in DOMAIN sessions
        /\ sessions[callSid[k]] # <<>>

\* C17: send_message for a call that has a session lengthens its history
\* by two when the backend call succeeds (the user turn, then one assistant
\* turn holding the reply it returns) and by one when the backend call
\* fails (the user turn only); the entries that were there stay as they
\* were, and no other call's history changes.
C17_HistoryGrowth ==
    \A c \in DOMAIN sessions : \A m \in LongMsgs, o \in BackendOutcomes :
        LET r  == B_send_message(sessions, c, m, o)
            h  == sessions[c]
            h2 == r.sessions[c]
            n  == Len(h)
        IN  /\ DOMAIN r.sessions = DOMAIN sessions
            /\ \A d \in DOMAIN sessions \ {c} : r.sessions[d] = sessions[d]
            /\ Len(h2) >= n
            /\ SubSeq(h2, 1, n) = h
            /\ o.kind = "ok" =>
                   /\ Len(h2) = n + 2
                   /\ h2[n + 1] = UserTurn(m)
                   /\ h2[n + 2] = AiTurn(r.ret)
            /\ o.kind # "ok" =>
                   /\ Len(h2) = n + 1
                   /\ h2[n + 1] = UserTurn(m)

\* A history in which a failed send_message (a user turn with no assistant
\* turn after it) was followed by a successful one.
C17_Witness ==
    /\ variant = "B"
    /\ \E c \in DOMAIN sessions :
          LET h == sessions[c]
          IN  /\ Len(h) >= 3
              /\ h[Len(h) - 2][1] = "User"
              /\ h[Len(h) - 1][1] = "User"
              /\ h[Len(h)][1] = "AI"

\* C18 as stated: when the session a request was issued on has been
\* removed or replaced before its completion arrives, the result is
\* discarded: the handler does not go on to send it, no history records
\* it and no session is created for it.
C18_Original ==
    [][\A k \in Conns :
          (pc[k] = "await" /\ req[k] = "detached" /\ last' = Step(k, "complete"))
              => /\ pc'[k] # "send"
                 /\ sessions' = sessions
      ]_vars

\* C19: get_response for a call that has no session raises ValueError
\* before the backend is called, the session map stays as it was, and the
\* handler's try block skips the event and goes back to receive the next.
C19_NoSessionRaises ==
    [][\A k \in Conns :
          (pc[k] = "recv" /\ last' = Step(k, "request") /\ NoSession(k))
              => /\ A_get_response_begin(sessions, callSid[k]).raised = "ValueError"
                 /\ sessions' = sessions
                 /\ req' = req
                 /\ asked' = asked
                 /\ out' = out
                 /\ pc'[k] = "recv"
      ]_vars

\* get_response was just called for a call whose session had been removed,
\* and the handler is back at receive_text.
C19_Witness ==
    \E k \in Conns :
        /\ last = Step(k, "request")
        /\ pc[k] = "recv"
        /\ callSid[k] # None
        /\ callSid[k] \notin DOMAIN sessions

\* C20 as stated: an event that is not valid JSON, has no "type", is a
\* setup without "callSid" or a prompt without "voicePrompt" is dropped:
\* the handler stays in its receive loop and the session map is unchanged.
C20_Original ==
    [][\A k \in Conns :
          (pc[k] = "recv" /\ last'.conn = k /\ last'.op \in MalformedKinds)
              => /\ pc'[k] = "recv"
                 /\ sessions' = sessions
      ]_vars

\* C13: for every non-blank text of n tokens, 1 <= n <= max_chunk_tokens,
\* _chunk_content returns exactly one chunk, with chunk_index 0,
\* total_chunks 1, token_count n and the input text as its content.
C13_SmallTextIsOneChunk ==
    (ret.op = "chunk_content" /\ Strip(ret.content) # <<>>
        /\ encode(ret.content).raised = None
        /\ Len(encode(ret.content).tokens) >= 1
        /\ Len(encode(ret.content).tokens) <= max_chunk_tokens)
    => /\ ret.out.raised = None
       /\ Len(ret.out.chunks) = 1
       /\ ret.out.chunks[1].metadata.chunk_index = 0
       /\ ret.out.chunks[1].metadata.total_chunks = 1
       /\ ret.out.chunks[1].token_count = Len(encode(ret.content).tokens)
       /\ ret.out.chunks[1].content = ret.content

\* _chunk_content has returned for a text of exactly max_chunk_tokens
\* tokens.
C13_Witness ==
    /\ ret.op = "chunk_content"
    /\ Strip(ret.content) # <<>>
    /\ ret.out.raised = None
    /\ Len(ret.content) = max_chunk_tokens
    /\ Len(ret.out.chunks) = 1

\* ceil(a / b) for a >= 0 and b > 0.
CeilDiv(a, b) == (a + b - 1) \div b

\* _chunk_content has returned for a text the encoding accepts.
Chunked == ret.op = "chunk_content" /\ encode(ret.content).raised = None

\* The number of tokens of that text.
TokenCount == Len(encode(ret.content).tokens)

\* C14 as stated: a text of n > max_chunk_tokens tokens comes back as
\* exactly ceil((n - chunk_overlap) / (max_chunk_tokens - chunk_overlap))
\* chunks, each with a token_count of at most max_chunk_tokens.
C14_Original ==
    (Chunked /\ TokenCount > max_chunk_tokens) =>
        /\ Len(ret.out.chunks) =
               CeilDiv(TokenCount - chunk_overlap,
                       max_chunk_tokens - chunk_overlap)
        /\ \A j \in 1 .. Len(ret.out.chunks) :
               ret.out.chunks[j].token_count <= max_chunk_tokens

\* C14 as amended: a non-blank text of n > max_chunk_tokens tokens comes
\* back as exactly ceil(n / (max_chunk_tokens - chunk_overlap)) chunks, one
\* per multiple of the stride below n; that is the stated count, and one
\* more when n mod stride is in 1 .. chunk_overlap (the last window then
\* starts inside the overlap of the one before).  Every chunk's
\* token_count, taken before the boundary is adjusted, is at most
\* max_chunk_tokens.
C14_ChunkCount ==
    (Chunked /\ TokenCount > max_chunk_tokens /\ Strip(ret.content) # <<>>) =>
        LET n == TokenCount
            stride == max_chunk_tokens - chunk_overlap
            stated == CeilDiv(n - chunk_overlap, stride)
        IN  /\ Len(ret.out.chunks) = CeilDiv(n, stride)
            /\ Len(ret.out.chunks) =
                   stated + (IF n % stride \in 1 .. chunk_overlap
                             THEN 1 ELSE 0)
            /\ \A j \in 1 .. Len(ret.out.chunks) :
                   ret.out.chunks[j].token_count <= max_chunk_tokens

\* _chunk_content has returned for a text of 2 * stride + 1 tokens, whose
\* third window lies inside the second.
C14_Witness ==
    /\ Chunked
    /\ TokenCount = 2 * (max_chunk_tokens - chunk_overlap) + 1
    /\ Strip(ret.content) # <<>>
    /\ Len(ret.out.chunks) = 3

\* C12 as stated: process_url never raises to its caller; whenever a step
\* fails (the fetch, the extraction, the chunking) it returns a document
\* with exactly one chunk, whose metadata has error = True and whose
\* token_count is the document's total_tokens.
C12_Original ==
    ret.op = "process_url" =>
        /\ ret.out.raised = None
        /\ ret.out.failed # None =>
               /\ Len(ret.out.doc.chunks) = 1
               /\ ret.out.doc.chunks[1].metadata.error = TRUE
               /\ ret.out.doc.total_tokens = ret.out.doc.chunks[1].token_count

\* The same for URLs and pages that hold no special token of the encoding.
C12_PlainTextOnly ==
    (ret.op = "process_url" /\ ret.out.failed # "chunk"
        /\ \A i \in 1 .. Len(ret.url) : ret.url[i] # SpecialToken)
    => /\ ret.out.raised = None
       /\ ret.out.failed # None =>
              /\ Len(ret.out.doc.chunks) = 1
              /\ ret.out.doc.chunks[1].metadata.error = TRUE
              /\ ret.out.doc.total_tokens = ret.out.doc.chunks[1].token_count

\* The score the claim gives a chunk for a query.
ClaimScore(query, content) ==
    Cardinality(words(lower(query)) \cap words(lower(content)))
        + 2 * count(lower(content), lower(query))

\* C15: search(query, top_k) returns at most top_k chunks, none of score
\* zero, in non-increasing order of score; chunks of equal score come in
\* the order they were added to the index, and no chunk left out scores
\* higher than one returned.
C15_SearchRanking ==
    ret.op = "search" =>
        LET hits == ret.out
            sc(i) == ClaimScore(ret.query, chunks[i].content)
        IN  /\ Len(hits) <= ret.top_k
            /\ \A r \in 1 .. Len(hits) :
                   hits[r] \in 1 .. Len(chunks) /\ sc(hits[r]) > 0
            /\ \A r, r2 \in 1 .. Len(hits) :
                   r < r2 =>
                       /\ sc(hits[r]) >= sc(hits[r2])
                       /\ sc(hits[r]) = sc(hits[r2]) => hits[r] < hits[r2]
            /\ \A i \in 1 .. Len(chunks), r \in 1 .. Len(hits) :
                   (\A r2 \in 1 .. Len(hits) : hits[r2] # i)
                       => sc(i) <= sc(hits[r])

\* A search that had more hits than top_k, two of them with the same
\* score and one that scores nothing.
C15_Witness ==
    /\ ret.op = "search"
    /\ Len(ret.out) = ret.top_k
    /\ Len(ret.out) >= 2
    /\ ClaimScore(ret.query, chunks[ret.out[1]].content)
           = ClaimScore(ret.query, chunks[ret.out[2]].content)
    /\ \E i \in 1 .. Len(chunks) :
           /\ ClaimScore(ret.query, chunks[i].content) > 0
           /\ \A r \in 1 .. Len(ret.out) : ret.out[r] # i
    /\ \E i \in 1 .. Len(chunks) :
           ClaimScore(ret.query, chunks[i].content) = 0

\* C16 as stated: every add_document(doc) adds one document to the map,
\* leaves the documents that were there as they were, and appends doc's
\* chunks, in order, to the flat list.
C16_Original ==
    [][ret'.op = "add_document" =>
          /\ Cardinality(DOMAIN documents') = Cardinality(DOMAIN documents) + 1
          /\ \A id \in DOMAIN documents :
                 id \in DOMAIN documents' /\ documents'[id] = documents[id]
          /\ chunks' = chunks \o ret'.doc.chunks
      ]_vars

\* C21: the k chunks _chunk_content returns carry chunk_index 0, 1, ...,
\* k-1 in the order of the list, and every one carries total_chunks = k;
\* none keeps the placeholder -1.
C21_IndexAndTotal ==
    (ret.op = "chunk_content" /\ ret.out.raised = None) =>
        \A j \in 1 .. Len(ret.out.chunks) :
            /\ ret.out.chunks[j].metadata.chunk_index = j - 1
            /\ ret.out.chunks[j].metadata.total_chunks = Len(ret.out.chunks)
            /\ ret.out.chunks[j].metadata.total_chunks # -1

\* _chunk_content has returned four chunks, from its loop.
C21_Witness ==
    /\ ret.op = "chunk_content"
    /\ ret.out.raised = None
    /\ Len(ret.out.windows) = 4
    /\ Len(ret.out.chunks) = 4

\* The token positions (from 0) that the j-th window of the loop holds.
WindowPositions(j) ==
    ret.out.windows[j].i .. (ret.out.windows[j].i + ret.out.windows[j].len - 1)

\* Token position p lies in the j-th window.
InWindow(p, j) ==
    /\ p >= ret.out.windows[j].i
    /\ p < ret.out.windows[j].i + ret.out.windows[j].len

\* Window j holds a token that lies in no earlier window.
HoldsNewToken(j) ==
    \E p \in WindowPositions(j) : \A j2 \in 1 .. (j - 1) : ~InWindow(p, j2)

\* C24 as stated: for a text of more than max_chunk_tokens tokens, window
\* i (counted from 0) starts at token i * (max_chunk_tokens -
\* chunk_overlap), every token position of the input lies in at least one
\* window, and every window holds at least one token that lies in no
\* earlier window.
C24_Original ==
    (Chunked /\ TokenCount > max_chunk_tokens) =>
        LET W == ret.out.windows
            n == TokenCount
        IN  /\ \A j \in 1 .. Len(W) :
                   W[j].i = (j - 1) * (max_chunk_tokens - chunk_overlap)
            /\ \A p \in 0 .. (n - 1) : \E j \in 1 .. Len(W) : InWindow(p, j)
            /\ \A j \in 1 .. Len(W) : HoldsNewToken(j)

\* C24 as amended: for a non-blank text of n > max_chunk_tokens tokens,
\* window i starts at token i * stride and holds the min(max_chunk_tokens,
\* n - i * stride) tokens from there, one chunk per window; every token
\* position lies in at least one window; every window but the last holds
\* a token that lies in no earlier window, and the last one does unless n
\* mod stride is in 1 .. chunk_overlap, when it lies wholly inside the
\* window before it.
C24_WindowsCover ==
    (Chunked /\ TokenCount > max_chunk_tokens /\ Strip(ret.content) # <<>>) =>
        LET W == ret.out.windows
            n == TokenCount
            stride == max_chunk_tokens - chunk_overlap
        IN  /\ Len(W) = Len(ret.out.chunks)
            /\ \A j \in 1 .. Len(W) :
                   /\ W[j].i = (j - 1) * stride
                   /\ W[j].len = Min(max_chunk_tokens, n - (j - 1) * stride)
                   /\ ret.out.chunks[j].token_count = W[j].len
            /\ \A p \in 0 .. (n - 1) : \E j \in 1 .. Len(W) : InWindow(p, j)
            /\ \A j \in 1 .. (Len(W) - 1) : HoldsNewToken(j)
            /\ HoldsNewToken(Len(W)) <=> (n % stride \notin 1 .. chunk_overlap)
            /\ ~HoldsNewToken(Len(W)) =>
                   \A p \in WindowPositions(Len(W)) : InWindow(p, Len(W) - 1)

\* _chunk_content has returned for a text whose last window starts inside
\* the overlap of the window before it and holds nothing new.
C24_Witness ==
    /\ Chunked
    /\ TokenCount > max_chunk_tokens
    /\ Strip(ret.content) # <<>>
    /\ Len(ret.out.windows) >= 3
    /\ ~HoldsNewToken(Len(ret.out.windows))

\* C22 as stated: whenever an invocation of the handler ends, for whatever
\* reason, no session remains in the map for the call id its connection
\* set up.
C22_Original ==
    [][\A k \in Conns :
          (pc[k] \notin {"done", "crashed"} /\ pc'[k] \in {"done", "crashed"})
              => (callSid[k] = None \/ callSid[k] \notin DOMAIN sessions')
      ]_vars

\* The ways of putting the documents of the map in a row.
Orderings ==
    {o \in [1 .. Cardinality(DOMAIN documents) -> DOMAIN documents] :
        \A a, b \in DOMAIN o : a # b => o[a] # o[b]}

\* The chunk lists of the documents of the map, one after the other in the
\* order o.
RECURSIVE ChunksInOrder(_)
ChunksInOrder(o) ==
    IF o = <<>> THEN <<>>
    ELSE documents[Head(o)].chunks \o ChunksInOrder(Tail(o))

\* C23 as stated: after any sequence of add_document calls the flat chunk
\* list is the chunk lists of the documents of the map, one after the
\* other, so that get_document_stats reports the chunks and the tokens
\* of the documents of the map.
C23_Original ==
    \E o \in Orderings :
        LET stats == get_document_stats(documents, chunks)
            all == ChunksInOrder(o)
        IN  /\ chunks = all
            /\ stats.total_chunks = Len(all)
            /\ stats.total_tokens = sum_token_count(all)

====
